---- MODULE Spec2Model ----
(***************************************************************************)
(* A model of the groupurl package: the path-token classifier chain, the   *)
(* tokenizer, the bounded case-insensitive counter, the grouping trie and  *)
(* the Grouper that owns one trie per path shape.                          *)
(*                                                                         *)
(* Strings are sequences of one-character strings, so that prefixes,       *)
(* trimming, lower-casing and joining are computed character by character. *)
(***************************************************************************)
EXTENDS Integers, Sequences, FiniteSets

VARIABLES classifiers, trees, last, added, counter, calls, corpus, idx,
          remaining, cleaned, pc, constructed

vars == <<classifiers, trees, last, added, counter, calls, corpus, idx,
          remaining, cleaned, pc, constructed>>

(***************************************************************************)
(* Characters and strings                                                  *)
(***************************************************************************)

LowerChars == {"a","b","c","d","e","f","g","h","i","j","k","l","m",
               "n","o","p","q","r","s","t","u","v","w","x","y","z"}

UpperChars == {"A","B","C","D","E","F","G","H","I","J","K","L","M",
               "N","O","P","Q","R","S","T","U","V","W","X","Y","Z"}

DigitChars == {"0","1","2","3","4","5","6","7","8","9"}

UpperToLower == [ch \in UpperChars |->
    CASE ch = "A" -> "a" [] ch = "B" -> "b" [] ch = "C" -> "c" [] ch = "D" -> "d"
      [] ch = "E" -> "e" [] ch = "F" -> "f" [] ch = "G" -> "g" [] ch = "H" -> "h"
      [] ch = "I" -> "i" [] ch = "J" -> "j" [] ch = "K" -> "k" [] ch = "L" -> "l"
      [] ch = "M" -> "m" [] ch = "N" -> "n" [] ch = "O" -> "o" [] ch = "P" -> "p"
      [] ch = "Q" -> "q" [] ch = "R" -> "r" [] ch = "S" -> "s" [] ch = "T" -> "t"
      [] ch = "U" -> "u" [] ch = "V" -> "v" [] ch = "W" -> "w" [] ch = "X" -> "x"
      [] ch = "Y" -> "y" [] ch = "Z" -> "z"]

DigitValue == [ch \in DigitChars |->
    CASE ch = "0" -> 0 [] ch = "1" -> 1 [] ch = "2" -> 2 [] ch = "3" -> 3
      [] ch = "4" -> 4 [] ch = "5" -> 5 [] ch = "6" -> 6 [] ch = "7" -> 7
      [] ch = "8" -> 8 [] ch = "9" -> 9]

DigitChar == [d \in 0..9 |-> CHOOSE ch \in DigitChars : DigitValue[ch] = d]

Slash == "/"

\* strings.ToLower, one character
LowerChar(ch) == IF ch \in UpperChars THEN UpperToLower[ch] ELSE ch

\* strings.ToLower
ToLower(s) == [i \in 1..Len(s) |-> LowerChar(s[i])]

\* s[n:] of Go, n counted from 0
Drop(s, n) == SubSeq(s, n + 1, Len(s))

\* s[:n] of Go
Take(s, n) == SubSeq(s, 1, n)

\* strings.HasPrefix
HasPrefix(s, prefix) ==
    /\ Len(prefix) <= Len(s)
    /\ Take(s, Len(prefix)) = prefix

\* length of the longest prefix of s made of characters of set
RECURSIVE RunLength(_, _)
RunLength(s, set) ==
    IF s # << >> /\ Head(s) \in set THEN 1 + RunLength(Tail(s), set) ELSE 0

\* length of the longest suffix of s made of characters of set
RECURSIVE TrailLength(_, _)
TrailLength(s, set) ==
    IF s # << >> /\ s[Len(s)] \in set
    THEN 1 + TrailLength(Take(s, Len(s) - 1), set)
    ELSE 0

\* strings.TrimLeft(s, "/")
TrimLeft(s) == Drop(s, RunLength(s, {Slash}))

\* strings.TrimRight(s, "/")
TrimRight(s) == Take(s, Len(s) - TrailLength(s, {Slash}))

\* strings.Count(s, "/")
RECURSIVE CountSlash(_)
CountSlash(s) ==
    IF s = << >> THEN 0
    ELSE (IF Head(s) = Slash THEN 1 ELSE 0) + CountSlash(Tail(s))

\* strings.Join(parts, "/")
RECURSIVE Join(_)
Join(parts) ==
    IF parts = << >> THEN << >>
    ELSE IF Len(parts) = 1 THEN parts[1]
    ELSE parts[1] \o <<Slash>> \o Join(Tail(parts))

\* fmt.Sprintf("%d", n) for n >= 0
RECURSIVE Itoa(_)
Itoa(n) ==
    IF n < 10 THEN <<DigitChar[n]>>
    ELSE Itoa(n \div 10) \o <<DigitChar[n % 10]>>

\* strconv.ParseInt(s, 10, 64) of a string of digits
RECURSIVE ParseInt(_)
ParseInt(s) ==
    IF s = << >> THEN 0
    ELSE 10 * ParseInt(Take(s, Len(s) - 1)) + DigitValue[s[Len(s)]]

(***************************************************************************)
(* Regular expressions of classifier.go, each as the function             *)
(* Regex.FindString computes for it: the match at the start of s, or the   *)
(* empty string.                                                           *)
(***************************************************************************)

LetterChars == LowerChars \cup UpperChars

AlnumChars == LetterChars \cup DigitChars

WordSeparators == {"-", "_"}

AlphaNumericChars == AlnumChars \cup {"-", "_", ".", " "}

\* the tail (/|$) of every pattern, after a body of n characters
WithSegmentEnd(s, n) ==
    IF Len(s) = n THEN s
    ELSE IF s[n + 1] = Slash THEN Take(s, n + 1)
    ELSE << >>

\* longest prefix of the form ([a-zA-Z0-9]+[-_]?)*, afterAlnum telling whether
\* the character before s is one of [a-zA-Z0-9]
RECURSIVE WordsRunLength(_, _)
WordsRunLength(s, afterAlnum) ==
    IF s = << >> THEN 0
    ELSE IF Head(s) \in AlnumChars THEN 1 + WordsRunLength(Tail(s), TRUE)
    ELSE IF Head(s) \in WordSeparators /\ afterAlnum
         THEN 1 + WordsRunLength(Tail(s), FALSE)
    ELSE 0

\* ^\d{4}(/|$)
regexYYYY(s) ==
    IF Len(s) >= 4 /\ \A i \in 1..4 : s[i] \in DigitChars
    THEN WithSegmentEnd(s, 4)
    ELSE << >>

\* ^([a-zA-Z0-9]+[-_]?){1,}(/|$)
regexWords(s) ==
    LET n == WordsRunLength(s, FALSE)
    IN IF n >= 1 THEN WithSegmentEnd(s, n) ELSE << >>

\* ^\d{4}/((0[1-9])|(1[0-2]))/((0[1-9])|([1-2][0-9])|(3[01]))(/|$)
regexYYYYMMDD(s) ==
    IF /\ Len(s) >= 10
       /\ \A i \in 1..4 : s[i] \in DigitChars
       /\ s[5] = Slash
       /\ \/ s[6] = "0" /\ s[7] \in DigitChars \ {"0"}
          \/ s[6] = "1" /\ s[7] \in {"0", "1", "2"}
       /\ s[8] = Slash
       /\ \/ s[9] = "0" /\ s[10] \in DigitChars \ {"0"}
          \/ s[9] \in {"1", "2"} /\ s[10] \in DigitChars
          \/ s[9] = "3" /\ s[10] \in {"0", "1"}
    THEN WithSegmentEnd(s, 10)
    ELSE << >>

\* ^\d+(/|$)
regexNumbers(s) ==
    LET n == RunLength(s, DigitChars)
    IN IF n >= 1 THEN WithSegmentEnd(s, n) ELSE << >>

\* ^[a-zA-Z]+(/|$)
regexAlpha(s) ==
    LET n == RunLength(s, LetterChars)
    IN IF n >= 1 THEN WithSegmentEnd(s, n) ELSE << >>

\* ^[a-zA-Z0-9\-_. ]+(/|$)
regexAlphaNumeric(s) ==
    LET n == RunLength(s, AlphaNumericChars)
    IN IF n >= 1 THEN WithSegmentEnd(s, n) ELSE << >>

\* Regex.FindString(s) for the pattern named regex
FindString(regex, s) ==
    CASE regex = "regexYYYY" -> regexYYYY(s)
      [] regex = "regexWords" -> regexWords(s)
      [] regex = "regexYYYYMMDD" -> regexYYYYMMDD(s)
      [] regex = "regexNumbers" -> regexNumbers(s)
      [] regex = "regexAlpha" -> regexAlpha(s)
      [] regex = "regexAlphaNumeric" -> regexAlphaNumeric(s)

(***************************************************************************)
(* Labels                                                                  *)
(***************************************************************************)

LabelFields(important, limit, value) ==
    [Important |-> important, CardinalityLimit |-> limit, Value |-> value]

\* LabelFields{}
ZeroLabelFields == LabelFields(FALSE, 0, << >>)

\* Label{LabelFields: fields}
Label(fields) == [LabelFields |-> fields, parent |-> ZeroLabelFields]

\* Label{}
ZeroLabel == Label(ZeroLabelFields)

parentOrSelf(l) ==
    IF l.parent.Value # << >> THEN l.parent ELSE l.LabelFields

isZero(l) == l.LabelFields.Value = << >>

cardinalityLimit(l) ==
    IF l.CardinalityLimit = 0 /\ ~l.Important THEN -1 ELSE l.CardinalityLimit

UnknownLabel ==
    Label(LabelFields(FALSE, 0, <<"U","n","k","n","o","w","n">>))

(***************************************************************************)
(* Classifiers.  A classifier is a record; Check is its Check method.      *)
(***************************************************************************)

RegexPathTokenClassifier(regex, label) ==
    [kind |-> "regex", Regex |-> regex, Label |-> label]

YearPathTokenClassifier(start, end) ==
    [kind |-> "year", Start |-> start, End |-> end]

NestedPathTokenClassifier(parent, children) ==
    [kind |-> "nested", Parent |-> parent, Children |-> children]

NoMatch == [label |-> ZeroLabel, match |-> << >>]

RegexCheck(c, s) ==
    LET match == FindString(c.Regex, s)
    IN IF match = << >> THEN NoMatch
       ELSE [label |-> c.Label, match |-> match]

\* YearCheck with End excluded from the range
YearCheckExclusiveEnd(c, s) ==
    LET match == regexYYYY(s)
        num == ParseInt(Take(match, 4))
    IN IF match = << >> THEN NoMatch
       ELSE IF num >= c.Start /\ num < c.End
            THEN [label |-> Label(LabelFields(FALSE, 0, <<"Y","Y","Y","Y">>)),
                  match |-> match]
       ELSE NoMatch

YearCheck(c, s) ==
    LET match == regexYYYY(s)
        num == ParseInt(Take(match, 4))
    IN IF match = << >> THEN NoMatch
       ELSE IF num >= c.Start /\ num <= c.End
            THEN [label |-> Label(LabelFields(FALSE, 0, <<"Y","Y","Y","Y">>)),
                  match |-> match]
       ELSE NoMatch

\* A caller's implementation of PathTokenClassifier in the manner of the
\* CustomPathTokenClassifier example: when the path starts with field it
\* returns label and match, otherwise Label{} and "".  The example returns
\* the field itself as the match.
CustomPathTokenClassifier(field, label, match) ==
    [kind |-> "custom", Field |-> field, Label |-> label, Match |-> match]

CustomCheck(c, s) ==
    IF HasPrefix(s, c.Field) THEN [label |-> c.Label, match |-> c.Match]
    ELSE NoMatch

RECURSIVE Check(_, _)

\* NestedChildren in which the last matching child wins
RECURSIVE NestedChildrenLastMatch(_, _, _)
NestedChildrenLastMatch(c, found, i) ==
    IF i > Len(c.Children) THEN found
    ELSE LET later == NestedChildrenLastMatch(c, found, i + 1)
             childLabel == Check(c.Children[i], found.match).label
         IN IF later # found THEN later
            ELSE IF ~isZero(childLabel)
            THEN [label |-> [LabelFields |-> childLabel.LabelFields,
                             parent |-> found.label.LabelFields],
                  match |-> found.match]
            ELSE found

\* the loop over n.Children of NestedPathTokenClassifier.Check, from child i on
RECURSIVE NestedChildren(_, _, _)
NestedChildren(c, found, i) ==
    IF i > Len(c.Children) THEN found
    ELSE LET childLabel == Check(c.Children[i], found.match).label
         IN IF ~isZero(childLabel)
            THEN [label |-> [LabelFields |-> childLabel.LabelFields,
                             parent |-> found.label.LabelFields],
                  match |-> found.match]
            ELSE NestedChildren(c, found, i + 1)

NestedCheck(c, s) ==
    LET found == Check(c.Parent, s)
    IN IF isZero(found.label) THEN NoMatch
       ELSE NestedChildren(c, found, 1)

Check(c, s) ==
    CASE c.kind = "regex" -> RegexCheck(c, s)
      [] c.kind = "year" -> YearCheck(c, s)
      [] c.kind = "nested" -> NestedCheck(c, s)
      [] c.kind = "custom" -> CustomCheck(c, s)

(***************************************************************************)
(* The built-in classifiers and the default chain                          *)
(***************************************************************************)

yyyyStart == 1900

\* time.Now().Year() when the package is initialised
yyyyEnd == 2026

YYYYMMDDClassifier ==
    RegexPathTokenClassifier("regexYYYYMMDD",
        Label(LabelFields(FALSE, 0, <<"Y","Y","Y","Y","/","M","M","/","D","D">>)))

AlphaNumericClassifier ==
    RegexPathTokenClassifier("regexAlphaNumeric",
        Label(LabelFields(FALSE, 0,
            <<"A","l","p","h","a","N","u","m","e","r","i","c">>)))

NumberClassifier ==
    RegexPathTokenClassifier("regexNumbers",
        Label(LabelFields(FALSE, 0, <<"N","u","m","b","e","r">>)))

WordsClassifier ==
    RegexPathTokenClassifier("regexWords",
        Label(LabelFields(TRUE, 50, <<"W","o","r","d","s">>)))

LettersClassifier ==
    RegexPathTokenClassifier("regexAlpha",
        Label(LabelFields(TRUE, 50, <<"L","e","t","t","e","r","s">>)))

\* DefaultClassifiers with the year classifier ahead of the date classifier
DefaultClassifiersYearFirst ==
    << YearPathTokenClassifier(yyyyStart, yyyyEnd),
       YYYYMMDDClassifier,
       NestedPathTokenClassifier(AlphaNumericClassifier,
           <<NumberClassifier, WordsClassifier, LettersClassifier>>) >>

DefaultClassifiers ==
    << YYYYMMDDClassifier,
       YearPathTokenClassifier(yyyyStart, yyyyEnd),
       NestedPathTokenClassifier(AlphaNumericClassifier,
           <<NumberClassifier, WordsClassifier, LettersClassifier>>) >>

(***************************************************************************)
(* The tokenizer                                                           *)
(***************************************************************************)

pathToken(token, label) == [token |-> token, label |-> label]

\* the loop of labelPathToken from classifier i on
RECURSIVE labelPathTokenFrom(_, _, _)
labelPathTokenFrom(path, cls, i) ==
    IF i > Len(cls) THEN [label |-> UnknownLabel, match |-> path]
    ELSE LET r == Check(cls[i], path)
         IN IF ~isZero(r.label) THEN r
            ELSE labelPathTokenFrom(path, cls, i + 1)

labelPathToken(path, cls) == labelPathTokenFrom(path, cls, 1)

RECURSIVE labelPathTokens(_, _)
labelPathTokens(path, cls) ==
    IF path = << >> THEN << >>
    ELSE IF Head(path) = Slash THEN labelPathTokens(Tail(path), cls)
    ELSE LET r == labelPathToken(path, cls)
         IN IF HasPrefix(path, r.match)
            THEN <<pathToken(TrimRight(r.match), r.label)>>
                 \o labelPathTokens(Drop(path, Len(r.match)), cls)
            ELSE <<pathToken(path, UnknownLabel)>>

(***************************************************************************)
(* caseInsensitiveStringCounter                                            *)
(***************************************************************************)

\* the reserved key of the overflow bucket
CardinalityKey == <<"c","a","r","d","i","n","a","l","i","t","y">>

newCaseInsensitiveStringCounter(limit) ==
    [limit |-> limit, total |-> 0, tokenCounts |-> << >>]

\* c.tokenCounts[key]++ on a Go map: a missing key counts from zero
Increment(counts, key) ==
    [k \in DOMAIN counts \cup {key} |->
        IF k = key
        THEN (IF key \in DOMAIN counts THEN counts[key] ELSE 0) + 1
        ELSE counts[k]]

population(c) == Cardinality(DOMAIN c.tokenCounts)

\* counterAdd that admits a new key while population <= limit
counterAddInclusive(c, s) ==
    LET key == ToLower(s)
    IN [c EXCEPT
          !.tokenCounts =
              IF \/ key \in DOMAIN c.tokenCounts
                 \/ c.limit = 0
                 \/ population(c) <= c.limit
              THEN Increment(c.tokenCounts, key)
              ELSE Increment(c.tokenCounts, CardinalityKey),
          !.total = c.total + 1]

\* counterAdd that does not lower-case the key
counterAddCaseSensitive(c, s) ==
    [c EXCEPT
        !.tokenCounts =
            IF \/ s \in DOMAIN c.tokenCounts
               \/ c.limit = 0
               \/ population(c) < c.limit
            THEN Increment(c.tokenCounts, s)
            ELSE Increment(c.tokenCounts, CardinalityKey),
        !.total = c.total + 1]

counterAdd(c, s) ==
    LET key == ToLower(s)
    IN [c EXCEPT
          !.tokenCounts =
              IF \/ key \in DOMAIN c.tokenCounts
                 \/ c.limit = 0
                 \/ population(c) < c.limit
              THEN Increment(c.tokenCounts, key)
              ELSE Increment(c.tokenCounts, CardinalityKey),
          !.total = c.total + 1]

get(c, s) ==
    IF ToLower(s) \in DOMAIN c.tokenCounts THEN c.tokenCounts[ToLower(s)] ELSE 0

\* isSignificant that still holds when population has reached the limit
isSignificantInclusive(c, s) ==
    /\ (population(c) <= c.limit \/ c.limit = 0)
    /\ c.total > 0
    /\ \/ 100 * population(c) < c.total
       \/ get(c, s) > population(c)

\* float64(a) / float64(b) for counts a, b >= 0, kept as the exact quotient:
\* the counts of the model are far below 2^52, where the rounding of a
\* float64 quotient is smaller than the gap between two different quotients
\* of counts and between such a quotient and 0.01, so rounding changes no
\* comparison made here.  0/0 is NaN.
float64Div(a, b) == [num |-> a, den |-> b]

isNaN(x) == x.den = 0 /\ x.num = 0

\* the constant 0.01
Threshold == [num |-> 1, den |-> 100]

\* x < y on float64: false when either side is NaN; a quotient with a zero
\* divisor and a positive dividend is +Inf
float64Less(x, y) ==
    /\ ~isNaN(x) /\ ~isNaN(y)
    /\ IF y.den = 0 THEN x.den # 0
       ELSE x.den # 0 /\ x.num * y.den < y.num * x.den

\* isSignificant with >= in place of > between the two quotients
isSignificantAtLeastAverage(c, s) ==
    LET averageSizePerToken == float64Div(population(c), c.total)
        tokenPerPopulation == float64Div(get(c, s), c.total)
    IN /\ (population(c) < c.limit \/ c.limit = 0)
       /\ \/ float64Less(averageSizePerToken, Threshold)
          \/ ~float64Less(tokenPerPopulation, averageSizePerToken)

isSignificant(c, s) ==
    LET averageSizePerToken == float64Div(population(c), c.total)
        tokenPerPopulation == float64Div(get(c, s), c.total)
    IN /\ (population(c) < c.limit \/ c.limit = 0)
       /\ \/ float64Less(averageSizePerToken, Threshold)
          \/ float64Less(averageSizePerToken, tokenPerPopulation)

(***************************************************************************)
(* urlTree.  A tree is a function from node positions to nodes; a position *)
(* is the sequence of edge keys (LabelFields) from the root, so the node   *)
(* at position n has a child under key k exactly when Append(n, k) is a    *)
(* position of the tree.                                                   *)
(***************************************************************************)

newURLNode(label) ==
    [specificLabel |-> label,
     tokenCounts |-> newCaseInsensitiveStringCounter(cardinalityLimit(label))]

Root == << >>

newURLTree == [n \in {Root} |-> newURLNode(ZeroLabelFields)]

\* current.children[key]: the child's position and whether it exists
ChildOf(current, key) == Append(current, key)

HasChild(t, current, key) == ChildOf(current, key) \in DOMAIN t

\* addToken that looks the child up under the token's own label fields
addTokenBySpecificLabel(t, current, token) ==
    LET parent == parentOrSelf(token.label)
        id == ChildOf(current, token.label.LabelFields)
        found == IF HasChild(t, current, token.label.LabelFields) THEN t[id]
                 ELSE newURLNode(token.label.LabelFields)
        promoted ==
            IF found.specificLabel.Value # token.label.LabelFields.Value
            THEN [found EXCEPT !.specificLabel = parent,
                               !.tokenCounts.limit = parent.CardinalityLimit]
            ELSE found
        child == [promoted EXCEPT
                    !.tokenCounts = counterAdd(promoted.tokenCounts, token.token)]
    IN [n \in DOMAIN t \cup {id} |-> IF n = id THEN child ELSE t[n]]

\* addToken that does not count the token for which it creates the node
addTokenSkipsFirstCount(t, current, token) ==
    LET parent == parentOrSelf(token.label)
        id == ChildOf(current, parent)
        found == IF HasChild(t, current, parent) THEN t[id]
                 ELSE newURLNode(token.label.LabelFields)
        promoted ==
            IF found.specificLabel.Value # token.label.LabelFields.Value
            THEN [found EXCEPT !.specificLabel = parent,
                               !.tokenCounts.limit = parent.CardinalityLimit]
            ELSE found
        child == IF HasChild(t, current, parent)
                 THEN [promoted EXCEPT
                          !.tokenCounts = counterAdd(promoted.tokenCounts, token.token)]
                 ELSE promoted
    IN [n \in DOMAIN t \cup {id} |-> IF n = id THEN child ELSE t[n]]

\* addToken whose promotion is undone by the next token of another label
addTokenTogglesLabel(t, current, token) ==
    LET parent == parentOrSelf(token.label)
        id == ChildOf(current, parent)
        found == IF HasChild(t, current, parent) THEN t[id]
                 ELSE newURLNode(token.label.LabelFields)
        promoted ==
            IF found.specificLabel.Value # token.label.LabelFields.Value
            THEN [found EXCEPT
                    !.specificLabel = IF found.specificLabel = parent
                                      THEN token.label.LabelFields
                                      ELSE parent,
                    !.tokenCounts.limit = parent.CardinalityLimit]
            ELSE found
        child == [promoted EXCEPT
                    !.tokenCounts = counterAdd(promoted.tokenCounts, token.token)]
    IN [n \in DOMAIN t \cup {id} |-> IF n = id THEN child ELSE t[n]]

\* one iteration of the loop of urlTree.add: the tree after token is handled
\* at node current
addToken(t, current, token) ==
    LET parent == parentOrSelf(token.label)
        id == ChildOf(current, parent)
        found == IF HasChild(t, current, parent) THEN t[id]
                 ELSE newURLNode(token.label.LabelFields)
        promoted ==
            IF found.specificLabel.Value # token.label.LabelFields.Value
            THEN [found EXCEPT !.specificLabel = parent,
                               !.tokenCounts.limit = parent.CardinalityLimit]
            ELSE found
        child == [promoted EXCEPT
                    !.tokenCounts = counterAdd(promoted.tokenCounts, token.token)]
    IN [n \in DOMAIN t \cup {id} |-> IF n = id THEN child ELSE t[n]]

\* urlTree.add from token i on, at node current
RECURSIVE treeAddFrom(_, _, _, _)
treeAddFrom(t, current, tokens, i) ==
    IF i > Len(tokens) THEN t
    ELSE treeAddFrom(addToken(t, current, tokens[i]),
                     ChildOf(current, parentOrSelf(tokens[i].label)),
                     tokens, i + 1)

treeAdd(t, tokens) == treeAddFrom(t, Root, tokens, 1)

\* mapSlice(tokens[i:], func(v) { return v.token })
RawTokens(tokens, i) == [j \in 1..(Len(tokens) - i + 1) |-> tokens[i + j - 1].token]

\* replacement with the two branches exchanged
replacementSwapped(child, token) ==
    IF child.specificLabel.Important /\ isSignificant(child.tokenCounts, token.token)
    THEN child.specificLabel.Value
    ELSE token.token

\* replacement that keeps the literal at a label that is not Important
replacementKeepsUnimportant(child, token) ==
    IF child.specificLabel.Important /\ ~isSignificant(child.tokenCounts, token.token)
    THEN child.specificLabel.Value
    ELSE token.token

\* what urlTree.path emits for a token whose edge exists
replacement(child, token) ==
    IF child.specificLabel.Important /\ isSignificant(child.tokenCounts, token.token)
    THEN token.token
    ELSE child.specificLabel.Value

\* treePathFrom that stops at a missing edge without the remaining tokens
RECURSIVE treePathFromDropsRest(_, _, _, _)
treePathFromDropsRest(t, current, tokens, i) ==
    IF i > Len(tokens) THEN << >>
    ELSE LET parent == parentOrSelf(tokens[i].label)
         IN IF ~HasChild(t, current, parent) THEN << >>
            ELSE <<replacement(t[ChildOf(current, parent)], tokens[i])>>
                 \o treePathFromDropsRest(t, ChildOf(current, parent), tokens, i + 1)

\* treePathFrom that emits the token of the missing edge and not the later ones
RECURSIVE treePathFromStopsShort(_, _, _, _)
treePathFromStopsShort(t, current, tokens, i) ==
    IF i > Len(tokens) THEN << >>
    ELSE LET parent == parentOrSelf(tokens[i].label)
         IN IF ~HasChild(t, current, parent) THEN <<tokens[i].token>>
            ELSE <<replacement(t[ChildOf(current, parent)], tokens[i])>>
                 \o treePathFromStopsShort(t, ChildOf(current, parent), tokens, i + 1)

\* urlTree.path from token i on, at node current
RECURSIVE treePathFrom(_, _, _, _)
treePathFrom(t, current, tokens, i) ==
    IF i > Len(tokens) THEN << >>
    ELSE LET parent == parentOrSelf(tokens[i].label)
         IN IF ~HasChild(t, current, parent) THEN RawTokens(tokens, i)
            ELSE <<replacement(t[ChildOf(current, parent)], tokens[i])>>
                 \o treePathFrom(t, ChildOf(current, parent), tokens, i + 1)

treePath(t, tokens) == treePathFrom(t, Root, tokens, 1)

\* the counters on which urlTree.path from token i on, at node current,
\* calls isSignificant: && does not evaluate it at a label that is not
\* Important
RECURSIVE treeEvaluatedFrom(_, _, _, _)
treeEvaluatedFrom(t, current, tokens, i) ==
    IF i > Len(tokens) THEN {}
    ELSE LET parent == parentOrSelf(tokens[i].label)
             child == t[ChildOf(current, parent)]
         IN IF ~HasChild(t, current, parent) THEN {}
            ELSE (IF child.specificLabel.Important THEN {child.tokenCounts} ELSE {})
                 \cup treeEvaluatedFrom(t, ChildOf(current, parent), tokens, i + 1)

\* The orders in which the keys of a counter can stand after topN has
\* collected them from the map, in whatever order Go iterates over it, and
\* sort.Slice has sorted them by count with the larger count first: every
\* arrangement of all the keys in which no count is followed by a larger one.
\* sort.Slice is not stable, so keys of equal count can stand in any order.
SortedByCount(c) ==
    {order \in [1..population(c) -> DOMAIN c.tokenCounts] :
        /\ \A i, j \in 1..population(c) : i # j => order[i] # order[j]
        /\ \A i, j \in 1..population(c) :
              i < j => c.tokenCounts[order[i]] >= c.tokenCounts[order[j]]}

\* topNResults with the smaller count first
topNResultsAscending(c, n) ==
    {Take(order, IF population(c) < n THEN population(c) ELSE n) :
        order \in {o \in [1..population(c) -> DOMAIN c.tokenCounts] :
            /\ \A i, j \in 1..population(c) : i # j => o[i] # o[j]
            /\ \A i, j \in 1..population(c) :
                  i < j => c.tokenCounts[o[i]] <= c.tokenCounts[o[j]]}}

\* the slices c.topN(n) can return, n >= 0
topNResults(c, n) ==
    {Take(order, IF population(c) < n THEN population(c) ELSE n) :
        order \in SortedByCount(c)}

\* The sets of keys c.topN(n) can return: min(n, population) keys, none of
\* them counted less often than a key left out.  Among keys of equal count
\* the choice follows the order in which Go iterates over the map.
topNKeySets(c, n) ==
    {keys \in SUBSET DOMAIN c.tokenCounts :
        /\ Cardinality(keys) = IF population(c) < n THEN population(c) ELSE n
        /\ \A k \in keys : \A j \in DOMAIN c.tokenCounts \ keys :
              c.tokenCounts[k] >= c.tokenCounts[j]}

\* The lines urlTree.print can write, one for each node below the root and
\* each choice of topN(20): the depth, the displayed Value, the tokens
\* listed (none unless the label is Important) and the total.  The order
\* of the lines and of the tokens within a line is left out.
printNode(t) ==
    {[depth |-> Len(n) - 1,
      Value |-> t[n].specificLabel.Value,
      tokens |-> IF t[n].specificLabel.Important
                 THEN {k \in top : isSignificant(t[n].tokenCounts, k)}
                 ELSE {},
      total |-> t[n].tokenCounts.total] :
        <<n, top>> \in UNION {{n} \X topNKeySets(t[n].tokenCounts, 20) :
                               n \in DOMAIN t \ {Root}}}

\* the counters on which urlTree.print calls isSignificant: those of the
\* nodes below the root, for each key topN returns
printEvaluated(t) ==
    {t[n].tokenCounts : n \in {x \in DOMAIN t \ {Root} :
                                  DOMAIN t[x].tokenCounts.tokenCounts # {}}}

(***************************************************************************)
(* Grouper                                                                 *)
(***************************************************************************)

\* the key getTree computes for a path
originalTokenCount(path) == CountSlash(TrimRight(TrimLeft(path)))

\* g.trees after getTree(path): the tree is created when the key has none
getTree(ts, path) ==
    LET key == originalTokenCount(path)
    IN IF key \in DOMAIN ts THEN ts
       ELSE [k \in DOMAIN ts \cup {key} |-> IF k = key THEN newURLTree ELSE ts[k]]

\* g.trees after Grouper.Add(path)
GrouperAdd(ts, cls, path) ==
    LET tokens == labelPathTokens(path, cls)
        key == originalTokenCount(path)
        withTree == getTree(ts, path)
    IN [withTree EXCEPT ![key] = treeAdd(withTree[key], tokens)]

\* the slice replaced of Grouper.SimplifyPath(path)
SimplifyReplaced(ts, cls, path) ==
    LET tokens == labelPathTokens(path, cls)
        t == getTree(ts, path)[originalTokenCount(path)]
    IN treePath(t, tokens)

\* the counters Grouper.SimplifyPath(path) calls isSignificant on
SimplifyEvaluated(ts, cls, path) ==
    LET tokens == labelPathTokens(path, cls)
        t == getTree(ts, path)[originalTokenCount(path)]
    IN treeEvaluatedFrom(t, Root, tokens, 1)

\* the string Grouper.SimplifyPath(path) returns
SimplifyResult(ts, cls, path) ==
    <<Slash>> \o Join(SimplifyReplaced(ts, cls, path))

(***************************************************************************)
(* The Grouper as a state machine.                                         *)
(*   classifiers, trees   the fields of the Grouper                        *)
(*   last                 the last call: its name, its path, the key of    *)
(*                        the tree it selected, the string it returned,    *)
(*                        the slice of strings it joined into that string  *)
(*                        and the counters it called isSignificant on      *)
(*   added                history: added[k][p] is the number of Add(p)     *)
(*                        calls that went to the tree of key k             *)
(*   corpus, idx          the training loop of a program: the corpus it    *)
(*                        adds and the number of paths added so far        *)
(*   constructed          the call of New that made the Grouper: its       *)
(*                        options, how many of them it called and the      *)
(*                        error it returned                                *)
(*   remaining, cleaned,  one call of labelPathTokens taken an iteration   *)
(*   pc                   at a time: its variable path, its result so far  *)
(*                        and whether it is in the loop                    *)
(***************************************************************************)

MaxAdds == 3

NoCall ==
    [op |-> "New", path |-> << >>, key |-> 0, result |-> << >>, replaced |-> << >>,
     evaluated |-> {}]

\* # of Add calls so far
RECURSIVE BagSize(_)
BagSize(bag) ==
    IF DOMAIN bag = {} THEN 0
    ELSE LET k == CHOOSE x \in DOMAIN bag : TRUE
         IN bag[k] + BagSize([x \in DOMAIN bag \ {k} |-> bag[x]])

RECURSIVE AddCalls(_)
AddCalls(a) ==
    IF DOMAIN a = {} THEN 0
    ELSE LET k == CHOOSE x \in DOMAIN a : TRUE
         IN BagSize(a[k]) + AddCalls([x \in DOMAIN a \ {k} |-> a[x]])

Record(a, key, path) ==
    [k \in DOMAIN a \cup {key} |->
        IF k = key
        THEN Increment(IF key \in DOMAIN a THEN a[key] ELSE << >>, path)
        ELSE a[k]]

\* the Option WithClassifiers(cls) returns
WithClassifiers(cls) == [kind |-> "WithClassifiers", classifiers |-> cls, err |-> "nil"]

\* func(g *Grouper) error { return errors.New("test") }
FailingOption == [kind |-> "error", classifiers |-> << >>, err |-> "test"]

\* Grouper{}: both fields nil
ZeroGrouper == [classifiers |-> << >>, trees |-> << >>]

\* option(&g): the Grouper afterwards and the error returned
applyOption(g, option) ==
    IF option.kind = "WithClassifiers"
    THEN [g |-> [g EXCEPT !.classifiers = option.classifiers], err |-> "nil"]
    ELSE [g |-> g, err |-> option.err]

\* the loop of New from option i on; applied counts the options called
RECURSIVE NewFrom(_, _, _)
NewFrom(g, options, i) ==
    IF i > Len(options) THEN [g |-> g, err |-> "nil", applied |-> Len(options)]
    ELSE LET r == applyOption(g, options[i])
         IN IF r.err # "nil"
            THEN [g |-> ZeroGrouper, err |-> r.err, applied |-> i]
            ELSE NewFrom(r.g, options, i + 1)

\* NewGrouper that returns the Grouper as configured so far with the error
RECURSIVE NewGrouperKeepsPartial(_)
NewGrouperKeepsPartial(options) ==
    IF options = << >>
    THEN [g |-> [classifiers |-> DefaultClassifiers, trees |-> << >>],
          err |-> "nil", applied |-> 0]
    ELSE LET before == NewGrouperKeepsPartial(Take(options, Len(options) - 1))
             r == applyOption(before.g, options[Len(options)])
         IN IF before.err # "nil" THEN before
            ELSE [g |-> r.g, err |-> r.err, applied |-> Len(options)]

\* what New(options...) returns
NewGrouper(options) ==
    NewFrom([classifiers |-> DefaultClassifiers, trees |-> << >>], options, 1)

\* the state after g, err := New(options...)
NewWith(options) ==
    LET r == NewGrouper(options)
    IN /\ classifiers = r.g.classifiers
       /\ trees = r.g.trees
       /\ constructed = [options |-> options, applied |-> r.applied, err |-> r.err]
       /\ last = NoCall
       /\ added = << >>

\* New(WithClassifiers(cls)), or New() when cls is DefaultClassifiers
New(cls) ==
    NewWith(IF cls = DefaultClassifiers THEN << >> ELSE <<WithClassifiers(cls)>>)

\* g.Add(u) with u.Path = path
Add(path) ==
    /\ AddCalls(added) < MaxAdds
    /\ trees' = GrouperAdd(trees, classifiers, path)
    /\ last' = [op |-> "Add", path |-> path,
                key |-> originalTokenCount(path), result |-> << >>,
                replaced |-> << >>, evaluated |-> {}]
    /\ added' = Record(added, originalTokenCount(path), path)
    /\ UNCHANGED <<classifiers, counter, calls, corpus, idx,
                 remaining, cleaned, pc, constructed>>

\* g.SimplifyPath(u) with u.Path = path
SimplifyPath(path) ==
    /\ trees' = getTree(trees, path)
    /\ last' = [op |-> "SimplifyPath", path |-> path,
                key |-> originalTokenCount(path),
                result |-> SimplifyResult(trees, classifiers, path),
                replaced |-> SimplifyReplaced(trees, classifiers, path),
                evaluated |-> SimplifyEvaluated(trees, classifiers, path)]
    /\ UNCHANGED <<classifiers, added, counter, calls, corpus, idx,
                 remaining, cleaned, pc, constructed>>

\* g.Print()
GrouperPrint ==
    /\ last' = [op |-> "Print", path |-> << >>, key |-> 0,
                result |-> UNION {printNode(trees[k]) : k \in DOMAIN trees},
                replaced |-> << >>,
                evaluated |-> UNION {printEvaluated(trees[k]) : k \in DOMAIN trees}]
    /\ UNCHANGED <<classifiers, trees, added, counter, calls, corpus, idx,
                   remaining, cleaned, pc, constructed>>

\* no standalone counter
NoCounter ==
    /\ counter = newCaseInsensitiveStringCounter(0)
    /\ calls = << >>

\* no training loop
NoCorpus ==
    /\ corpus = "none"
    /\ idx = 0

\* no call of the tokenizer under observation
NoTokenizer ==
    /\ remaining = << >>
    /\ cleaned = << >>
    /\ pc = "idle"

Idle == NoCounter /\ NoCorpus /\ NoTokenizer

(***************************************************************************)
(* Spec: a Grouper with the default classifiers, fed paths of several      *)
(* shapes.                                                                 *)
(***************************************************************************)

DefaultPaths ==
    { <<"/">>,
      <<"/","a">>,
      <<"/","A","/">>,
      <<"/","1">>,
      <<"/","a","/","/","1">>,
      <<"/","a","/","1","/","b">>,
      <<"/","a","/","1","9","9","9","/","b">>,
      <<"/","2","0","1","3","/","1","1","/","2","0","/","a">>,
      <<"/","2","0","1","3","/","1","1","/","2","0","/","1","!">> }

Init == New(DefaultClassifiers) /\ Idle

Next ==
    \/ \E path \in DefaultPaths : Add(path) \/ SimplifyPath(path)
    \/ GrouperPrint

Spec == Init /\ [][Next]_vars

(***************************************************************************)
(* SpecCustom: a Grouper built with WithClassifiers.  The chain is one     *)
(* nested classifier whose parent label is Important with a limit of its   *)
(* own and whose children carry smaller limits; two of the children share  *)
(* the Value "Name" and differ in CardinalityLimit.                        *)
(***************************************************************************)

MixedFields == LabelFields(TRUE, 3, <<"M","i","x","e","d">>)

IdFields == LabelFields(FALSE, 0, <<"I","d">>)

ShortNameFields == LabelFields(TRUE, 1, <<"N","a","m","e">>)

LongNameFields == LabelFields(TRUE, 2, <<"N","a","m","e">>)

CustomClassifiers ==
    << NestedPathTokenClassifier(
           RegexPathTokenClassifier("regexAlphaNumeric", Label(MixedFields)),
           << RegexPathTokenClassifier("regexNumbers", Label(IdFields)),
              RegexPathTokenClassifier("regexAlpha", Label(ShortNameFields)),
              RegexPathTokenClassifier("regexWords", Label(LongNameFields)) >>) >>

CustomPaths ==
    { <<"/","1">>,
      <<"/","2">>,
      <<"/","a">>,
      <<"/","A">>,
      <<"/","b">>,
      <<"/","a","1">>,
      <<"/","b","/","1">> }

InitCustom == New(CustomClassifiers) /\ Idle

NextCustom == \E path \in CustomPaths : Add(path) \/ SimplifyPath(path)

SpecCustom == InitCustom /\ [][NextCustom]_vars

(***************************************************************************)
(* SpecShuffle: a Grouper trained with a few paths in any order, as        *)
(* loadFixture trains one with the shuffled lines of a file, with the      *)
(* default classifiers or with the nested classifier of SpecCustom.        *)
(***************************************************************************)

MaxShuffleAdds == 5

ShuffleChains == {DefaultClassifiers, CustomClassifiers}

ShufflePaths ==
    { <<"/","1">>,
      <<"/","2">>,
      <<"/","a">> }

\* g.Add(u) in the loop of loadFixture
ShuffleAdd(path) ==
    /\ AddCalls(added) < MaxShuffleAdds
    /\ trees' = GrouperAdd(trees, classifiers, path)
    /\ last' = [op |-> "Add", path |-> path,
                key |-> originalTokenCount(path), result |-> << >>,
                replaced |-> << >>, evaluated |-> {}]
    /\ added' = Record(added, originalTokenCount(path), path)
    /\ UNCHANGED <<classifiers, counter, calls, corpus, idx,
                 remaining, cleaned, pc, constructed>>

\* the orders rand.Shuffle can give the paths added so far
Orderings ==
    LET paths == UNION {DOMAIN added[k] : k \in DOMAIN added}
    IN {order \in [1..AddCalls(added) -> paths] :
          \A path \in paths :
              Cardinality({i \in 1..AddCalls(added) : order[i] = path})
                  = added[originalTokenCount(path)][path]}

\* g.trees after the loop of loadFixture has added order[i], order[i+1], ...
RECURSIVE TrainedFrom(_, _, _, _)
TrainedFrom(ts, cls, order, i) ==
    IF i > Len(order) THEN ts
    ELSE TrainedFrom(GrouperAdd(ts, cls, order[i]), cls, order, i + 1)

\* g.trees of a fresh Grouper with the same classifiers after the paths of
\* order have been added one after the other
TrainedIn(order) == TrainedFrom(ZeroGrouper.trees, classifiers, order, 1)

InitShuffle == (\E cls \in ShuffleChains : New(cls)) /\ Idle

NextShuffle == \E path \in ShufflePaths : ShuffleAdd(path) \/ SimplifyPath(path)

SpecShuffle == InitShuffle /\ [][NextShuffle]_vars

(***************************************************************************)
(* SpecCounter: one caseInsensitiveStringCounter on its own.               *)
(*   counter   the counter                                                 *)
(*   calls     history: calls[s] is the number of add(s) calls             *)
(***************************************************************************)

MaxCounterAdds == 5

CounterLimits == {-1, 0, 1, 2, 3}

CounterKeys ==
    { <<"a">>, <<"A">>, <<"b">>, <<"c">>, CardinalityKey }

\* c.add(s)
CounterAdd(s) ==
    /\ BagSize(calls) < MaxCounterAdds
    /\ counter' = counterAdd(counter, s)
    /\ calls' = Increment(calls, s)
    /\ last' = [op |-> "add", path |-> s, key |-> 0, result |-> << >>,
                replaced |-> << >>, evaluated |-> {}]
    /\ UNCHANGED <<classifiers, trees, added, corpus, idx,
                 remaining, cleaned, pc, constructed>>

InitCounter ==
    /\ \E limit \in CounterLimits :
          counter = newCaseInsensitiveStringCounter(limit)
    /\ calls = << >>
    /\ New(DefaultClassifiers)
    /\ NoCorpus
    /\ NoTokenizer

NextCounter == \E s \in CounterKeys : CounterAdd(s)

SpecCounter == InitCounter /\ [][NextCounter]_vars

(***************************************************************************)
(* SpecTopN: the counter of SpecCounter with calls of topN between the     *)
(* calls of add; last.key is the argument n and last.result the slice      *)
(* returned.                                                               *)
(***************************************************************************)

\* the arguments: 2 in the test, 20 in printNode, and the small ones
TopNArguments == {0, 1, 2, 3, 20}

\* c.topN(n): the receiver is a copy of the counter and its map is only read
TopNCall(n) ==
    /\ \E top \in topNResults(counter, n) :
          last' = [op |-> "topN", path |-> << >>, key |-> n, result |-> top,
                   replaced |-> << >>, evaluated |-> {}]
    /\ UNCHANGED <<classifiers, trees, added, counter, calls, corpus, idx,
                   remaining, cleaned, pc, constructed>>

InitTopN == InitCounter

NextTopN ==
    \/ \E s \in CounterKeys : CounterAdd(s)
    \/ \E n \in TopNArguments : TopNCall(n)

SpecTopN == InitTopN /\ [][NextTopN]_vars

(***************************************************************************)
(* SpecTrain: the programs that add a corpus in a loop and then simplify.  *)
(*   "basic"  examples/basic/main.go: /important-label/0 .. 99             *)
(*   "a"      the same loop over /a/1 .. /a/100                            *)
(*   "words"  one position under /random that sees one word many times     *)
(*            and then ever new words, as the corpus of TestFile does      *)
(*   "nested" a short corpus for the Grouper built with CustomClassifiers  *)
(* SimplifyPath may be called after any number of iterations.              *)
(***************************************************************************)

\* the number of iterations of the loop of examples/basic/main.go
ExampleSize == 100

WordRepeats == 60

DistinctWords == 51

Corpora == {"basic", "a", "words", "nested"}

ImportantLabel == <<"i","m","p","o","r","t","a","n","t","-","l","a","b","e","l">>

Random == <<"r","a","n","d","o","m">>

\* "/" + first + "/" + second
TwoSegments(first, second) == <<Slash>> \o first \o <<Slash>> \o second

\* the i-th word of the words corpus
Word(i) == <<"w">> \o Itoa(i)

NestedCorpus ==
    << <<"/","1">>, <<"/","2">>, <<"/","a">>, <<"/","a">>, <<"/","a">>, <<"/","b">> >>

CorpusSize(c) ==
    CASE c = "basic" -> ExampleSize
      [] c = "a" -> ExampleSize
      [] c = "words" -> WordRepeats + DistinctWords - 1
      [] c = "nested" -> Len(NestedCorpus)

\* the path the i-th iteration adds, i = 1 .. CorpusSize(c)
CorpusPath(c, i) ==
    CASE c = "basic" -> TwoSegments(ImportantLabel, Itoa(i - 1))
      [] c = "a" -> TwoSegments(<<"a">>, Itoa(i))
      [] c = "words" ->
            TwoSegments(Random, IF i <= WordRepeats THEN Word(1)
                                ELSE Word(i - WordRepeats + 1))
      [] c = "nested" -> NestedCorpus[i]

\* the paths the program simplifies
ProbePaths(c) ==
    CASE c = "basic" -> {TwoSegments(ImportantLabel, <<"1">>)}
      [] c = "a" -> {TwoSegments(<<"a">>, <<"1">>)}
      [] c = "words" -> {TwoSegments(Random, Word(1)),
                         TwoSegments(Random, <<"W","1">>),
                         TwoSegments(Random, <<"z","z">>)}
      [] c = "nested" -> {<<"/","a">>, <<"/","1">>, <<"/","z","z">>}

CorpusClassifiers(c) ==
    IF c = "nested" THEN CustomClassifiers ELSE DefaultClassifiers

\* one iteration of the loop: g.Add of the next path of the corpus
Train ==
    /\ idx < CorpusSize(corpus)
    /\ LET path == CorpusPath(corpus, idx + 1)
       IN /\ trees' = GrouperAdd(trees, classifiers, path)
          /\ last' = [op |-> "Add", path |-> path,
                      key |-> originalTokenCount(path), result |-> << >>,
                replaced |-> << >>, evaluated |-> {}]
          /\ added' = Record(added, originalTokenCount(path), path)
    /\ idx' = idx + 1
    /\ UNCHANGED <<classifiers, counter, calls, corpus, remaining, cleaned, pc, constructed>>

Probe == \E path \in ProbePaths(corpus) : SimplifyPath(path)

InitTrain ==
    /\ corpus \in Corpora
    /\ idx = 0
    /\ New(CorpusClassifiers(corpus))
    /\ NoCounter
    /\ NoTokenizer

NextTrain == Train \/ Probe

SpecTrain == InitTrain /\ [][NextTrain]_vars

(***************************************************************************)
(* SpecTokenize: calls of labelPathTokens observed one loop iteration at a *)
(* time, for the default chain and for chains that start with a caller's   *)
(* classifier: the classifier of the example, one that returns its label   *)
(* with a match that is not a prefix of the path, and one that returns its *)
(* label with an empty match.                                              *)
(***************************************************************************)

MaxTokens == 4

\* _mySpecialField
SpecialField == <<"f","o","o","/">>

SpecialTokenLabel ==
    Label(LabelFields(TRUE, 0, <<"S","p","e","c","i","a","l","T","o","k","e","n">>))

ExampleChain ==
    <<CustomPathTokenClassifier(SpecialField, SpecialTokenLabel, SpecialField)>>
    \o DefaultClassifiers

ForeignMatchChain ==
    <<CustomPathTokenClassifier(<<"a">>, SpecialTokenLabel, <<"b","/">>)>>
    \o DefaultClassifiers

EmptyMatchChain ==
    <<CustomPathTokenClassifier(<<"a">>, SpecialTokenLabel, << >>)>>
    \o DefaultClassifiers

TokenizerChains ==
    {DefaultClassifiers, ExampleChain, ForeignMatchChain, EmptyMatchChain}

TokenizerPaths ==
    { << >>,
      <<"/">>,
      <<"/","a">>,
      <<"/","b","/","1">>,
      <<"/","1","/","a","/","b">>,
      <<"/","/","1","/","/">>,
      <<"f","o","o","/","b">>,
      <<"/","f","o","o">>,
      <<"/","b","!","/","1">>,
      <<"/","1","/","!","/","b">>,
      <<"/","1","8","9","9","/","2","0","2","6">>,
      <<"/","2","0","1","3","/","1","1","/","2","0","/","b">> }

\* labelPathTokens(path, g.classifiers) is entered
labelPathTokensCall(path) ==
    /\ pc # "loop"
    /\ remaining' = path
    /\ cleaned' = << >>
    /\ pc' = "loop"
    /\ last' = [op |-> "labelPathTokens", path |-> path, key |-> 0,
                result |-> << >>, replaced |-> << >>, evaluated |-> {}]
    /\ UNCHANGED <<classifiers, trees, added, counter, calls, corpus, idx,
                   constructed>>

\* one evaluation of the loop condition of labelPathTokens and, when it
\* holds, one iteration of the loop body
labelPathTokensIteration ==
    /\ pc = "loop"
    /\ Len(cleaned) < MaxTokens
    /\ IF remaining = << >>
       THEN /\ pc' = "done"
            /\ UNCHANGED <<remaining, cleaned>>
       ELSE IF Head(remaining) = Slash
       THEN /\ remaining' = Tail(remaining)
            /\ UNCHANGED <<cleaned, pc>>
       ELSE LET r == labelPathToken(remaining, classifiers)
            IN IF HasPrefix(remaining, r.match)
               THEN /\ cleaned' = Append(cleaned,
                                      pathToken(TrimRight(r.match), r.label))
                    /\ remaining' = Drop(remaining, Len(r.match))
                    /\ UNCHANGED pc
               ELSE /\ cleaned' = Append(cleaned, pathToken(remaining, UnknownLabel))
                    /\ pc' = "done"
                    /\ UNCHANGED remaining
    /\ UNCHANGED <<classifiers, trees, last, added, counter, calls, corpus, idx,
                   constructed>>

InitTokenize ==
    /\ \E cls \in TokenizerChains : New(cls)
    /\ Idle

NextTokenize ==
    \/ \E path \in TokenizerPaths : labelPathTokensCall(path)
    \/ labelPathTokensIteration

SpecTokenize == InitTokenize /\ [][NextTokenize]_vars

(***************************************************************************)
(* SpecNew: New with every list of up to MaxOptions options, each of them  *)
(* WithClassifiers or the failing option of TestNew.  As loadFixture does, *)
(* the caller uses the Grouper only when New returned no error.            *)
(***************************************************************************)

MaxOptions == 3

Options ==
    { WithClassifiers(DefaultClassifiers),
      WithClassifiers(CustomClassifiers),
      WithClassifiers(ExampleChain),
      FailingOption }

OptionLists == UNION {[1..n -> Options] : n \in 0..MaxOptions}

NewPaths == { <<"/","a">>, <<"/","1">> }

InitNew ==
    /\ \E options \in OptionLists : NewWith(options)
    /\ Idle

NextNew ==
    /\ constructed.err = "nil"
    /\ \E path \in NewPaths : Add(path) \/ SimplifyPath(path)

SpecNew == InitNew /\ [][NextNew]_vars

(***************************************************************************)
(* SpecSignificant: one counter that is added to up to MaxTotal times and  *)
(* asked isSignificant in between, so that totals above a hundred times    *)
(* the population occur.                                                   *)
(***************************************************************************)

MaxTotal == 102

SignificantKeys == { <<"a">>, <<"b">> }

\* c.add(s), with no history kept
SignificantAdd(s) ==
    /\ counter.total < MaxTotal
    /\ counter' = counterAdd(counter, s)
    /\ UNCHANGED <<classifiers, trees, last, added, calls, corpus, idx,
                   remaining, cleaned, pc, constructed>>

\* c.isSignificant(s)
IsSignificantCall(s) ==
    /\ last' = [op |-> "isSignificant", path |-> s, key |-> 0,
                result |-> isSignificant(counter, s), replaced |-> << >>, evaluated |-> {}]
    /\ UNCHANGED <<classifiers, trees, added, counter, calls, corpus, idx,
                   remaining, cleaned, pc, constructed>>

InitSignificant ==
    /\ \E limit \in CounterLimits :
          counter = newCaseInsensitiveStringCounter(limit)
    /\ calls = << >>
    /\ New(DefaultClassifiers)
    /\ NoCorpus
    /\ NoTokenizer

NextSignificant ==
    \E s \in SignificantKeys : SignificantAdd(s) \/ IsSignificantCall(s)

SpecSignificant == InitSignificant /\ [][NextSignificant]_vars

(***************************************************************************)
(* SpecCheck: the Check method of single classifiers.  The Grouper's chain *)
(* is a list of sample classifiers (nested classifiers of several shapes,  *)
(* year classifiers of several ranges) and each call applies one of them   *)
(* to one string; last.key is the index of the classifier and last.result  *)
(* the label and the match returned.                                       *)
(***************************************************************************)

CheckSamples ==
    << \* the nested classifier of DefaultClassifiers
       DefaultClassifiers[3],
       \* its children in the opposite order
       NestedPathTokenClassifier(AlphaNumericClassifier,
           <<LettersClassifier, WordsClassifier, NumberClassifier>>),
       \* a child that matches the remainder and not the parent's match
       NestedPathTokenClassifier(AlphaNumericClassifier,
           <<YYYYMMDDClassifier, NumberClassifier>>),
       \* no children
       NestedPathTokenClassifier(LettersClassifier, << >>),
       \* a nested classifier as the parent
       NestedPathTokenClassifier(
           NestedPathTokenClassifier(AlphaNumericClassifier, <<NumberClassifier>>),
           <<LettersClassifier>>),
       \* a nested classifier as a child, the year classifier as another
       NestedPathTokenClassifier(AlphaNumericClassifier,
           << YearPathTokenClassifier(yyyyStart, yyyyEnd),
              NestedPathTokenClassifier(WordsClassifier, <<LettersClassifier>>) >>),
       CustomClassifiers[1],
       \* the year classifier of DefaultClassifiers, and other ranges
       DefaultClassifiers[2],
       YearPathTokenClassifier(2000, 2000),
       YearPathTokenClassifier(2001, 2000),
       YearPathTokenClassifier(0, 9999) >>

CheckInputs ==
    { << >>,
      <<"/">>,
      <<"a">>,
      <<"A","b","/">>,
      <<"a","/","1">>,
      <<"a","1">>,
      <<"a","-","b">>,
      <<"a",".","b","/","c">>,
      <<"a","!">>,
      <<"!">>,
      <<"7">>,
      <<"1","2","/","a">>,
      <<"2","0","1","3","/","1","1","/","2","0">>,
      <<"2","0","1","3","/","1","3","/","2","0">>,
      <<"0","0","0","0">>,
      <<"1","8","9","9">>,
      <<"1","8","9","9","/","1","1","/","2","0">>,
      <<"1","8","9","9","/","a">>,
      <<"1","9","0","0">>,
      <<"1","9","0","0","/">>,
      <<"2","0","0","0","/","a">>,
      <<"2","0","0","1">>,
      <<"2","0","2","6">>,
      <<"2","0","2","7">>,
      <<"9","9","9","9">>,
      <<"2","0","2">>,
      <<"2","0","2","6","0">>,
      <<"2","0","2","6","a">>,
      <<"2","0","2","6","-","a">> }

\* classifiers[i].Check(s)
CheckCall(i, s) ==
    /\ last' = [op |-> "Check", path |-> s, key |-> i,
                result |-> Check(classifiers[i], s), replaced |-> << >>, evaluated |-> {}]
    /\ UNCHANGED <<classifiers, trees, added, counter, calls, corpus, idx,
                   remaining, cleaned, pc, constructed>>

InitCheck == New(CheckSamples) /\ Idle

NextCheck == \E i \in 1..Len(CheckSamples), s \in CheckInputs : CheckCall(i, s)

SpecCheck == InitCheck /\ [][NextCheck]_vars

(***************************************************************************)
(* Vocabulary of the properties                                            *)
(***************************************************************************)

\* the number of non-empty '/'-delimited segments of a path
SegmentCount(path) ==
    Cardinality({i \in 1..Len(path) :
        path[i] # Slash /\ (i = 1 \/ path[i - 1] = Slash)})

\* the non-empty '/'-delimited segments of a string, in order
RECURSIVE Segments(_)
Segments(str) ==
    IF str = << >> THEN << >>
    ELSE IF Head(str) = Slash THEN Segments(Tail(str))
    ELSE LET n == RunLength(str, {ch \in {str[i] : i \in 1..Len(str)} : ch # Slash})
         IN <<Take(str, n)>> \o Segments(Drop(str, n))

\* a path in the form SimplifyPath writes: "/" alone, or every segment
\* non-empty, each preceded by exactly one "/", and nothing after the last
Canonical(path) ==
    \/ path = <<Slash>>
    \/ /\ path # << >>
       /\ Head(path) = Slash
       /\ path[Len(path)] # Slash
       /\ \A i \in 1..(Len(path) - 1) : ~(path[i] = Slash /\ path[i + 1] = Slash)

\* every path that some Add call has been given
AddedPaths == UNION {DOMAIN added[k] : k \in DOMAIN added}

\* every node of every tree except the roots, as <<tree key, position>>
ChildNodes ==
    {kn \in UNION {{k} \X DOMAIN trees[k] : k \in DOMAIN trees} : kn[2] # Root}

DatePrefix == <<"/","2","0","1","3","/","1","1","/","2","0","/">>

\* /2013/11/20/<segment> with one non-empty segment
DatePath(path) ==
    /\ HasPrefix(path, DatePrefix)
    /\ SegmentCount(path) = 4

(***************************************************************************)
(* C3: with the default chain a leading YYYY/MM/DD run is labelled by the  *)
(* date classifier, not by the year classifier, and once some path         *)
(* /2013/11/20/<segment> has been added, SimplifyPath of any path          *)
(* /2013/11/20/<segment> returns a path whose first three segments are     *)
(* YYYY, MM and DD.                                                        *)
(***************************************************************************)
C3_DateFirst ==
    (/\ last.op = "SimplifyPath"
     /\ DatePath(last.path)
     /\ \E q \in AddedPaths : DatePath(q))
    => /\ labelPathToken(TrimLeft(last.path), classifiers).label
              = YYYYMMDDClassifier.Label
       /\ Len(Segments(last.result)) >= 3
       /\ Take(Segments(last.result), 3)
              = << <<"Y","Y","Y","Y">>, <<"M","M">>, <<"D","D">> >>

\* a date path never added is simplified after another date path was added
C3_Witness ==
    /\ last.op = "SimplifyPath"
    /\ DatePath(last.path)
    /\ last.path \notin AddedPaths
    /\ \E q \in AddedPaths : DatePath(q)
    /\ last.result = <<"/","Y","Y","Y","Y","/","M","M","/","D","D","/","1","!">>

C8_NoLiteralsRemembered ==
    \A kn \in ChildNodes :
        LET node == trees[kn[1]][kn[2]]
        IN (~node.specificLabel.Important /\ node.specificLabel.CardinalityLimit = 0)
           => DOMAIN node.tokenCounts.tokenCounts \subseteq {CardinalityKey}

(***************************************************************************)
(* C10 as claimed: two paths with different numbers of non-empty segments  *)
(* are never added to, or simplified against, the same tree (stated for    *)
(* paths of at least one segment).                                         *)
(***************************************************************************)
C10_TreePerSegmentCount ==
    /\ \A k \in DOMAIN added : \A p, q \in DOMAIN added[k] :
          (SegmentCount(p) > 0 /\ SegmentCount(q) > 0)
          => SegmentCount(p) = SegmentCount(q)
    /\ (last.op = "SimplifyPath" /\ last.key \in DOMAIN added)
       => \A q \in DOMAIN added[last.key] :
             (SegmentCount(q) > 0 /\ SegmentCount(last.path) > 0)
             => SegmentCount(q) = SegmentCount(last.path)

(***************************************************************************)
(* History of a node, read from the Add calls recorded in added            *)
(***************************************************************************)

\* the edge keys of the first n tokens
EdgeKeys(tokens, n) == [i \in 1..n |-> parentOrSelf(tokens[i].label)]

\* the tokens that Add calls have brought to the node at position n of tree k
TokensReaching(k, n) ==
    IF k \notin DOMAIN added THEN {}
    ELSE {tokens[Len(n)] : tokens \in
            {ts \in {labelPathTokens(q, classifiers) : q \in DOMAIN added[k]} :
                Len(ts) >= Len(n) /\ EdgeKeys(ts, Len(n)) = n}}

\* the specific labels (Fields) those tokens carried
LabelsReaching(k, n) == {tok.label.LabelFields : tok \in TokensReaching(k, n)}

\* the node still has the label and the limit it was created with
NeverPromoted(k, n) ==
    Cardinality({l.Value : l \in LabelsReaching(k, n)}) = 1

Max(a, b) == IF a >= b THEN a ELSE b

(***************************************************************************)
(* C5 as claimed: a node's displayed label is the specific label of the    *)
(* tokens that reached it while they all carried the same one, and the     *)
(* edge key once two tokens with different specific label fields have      *)
(* reached it.                                                             *)
(***************************************************************************)
C5_DisplayedLabel ==
    \A kn \in ChildNodes :
        LET node == trees[kn[1]][kn[2]]
            labels == LabelsReaching(kn[1], kn[2])
        IN IF Cardinality(labels) = 1
           THEN node.specificLabel \in labels
           ELSE node.specificLabel = kn[2][Len(kn[2])]

(***************************************************************************)
(* C6 as claimed: total is the number of add calls and the sum of the      *)
(* stored counts, and a new key that arrives when limit (> 0) keys are     *)
(* tracked is not stored (get returns 0 for it) and is counted under the   *)
(* overflow key.                                                           *)
(***************************************************************************)
C6_OverflowFolded ==
    [][LET s == last'.path
       IN /\ counter'.total = BagSize(calls')
          /\ counter'.total = BagSize(counter'.tokenCounts)
          /\ (/\ counter.limit > 0
              /\ ToLower(s) \notin DOMAIN counter.tokenCounts
              /\ population(counter) >= counter.limit)
             => /\ get(counter', s) = 0
                /\ get(counter', CardinalityKey) = get(counter, CardinalityKey) + 1
      ]_vars

C9_CaseInsensitive ==
    /\ \A s, t \in CounterKeys :
          ToLower(s) = ToLower(t)
          => /\ counterAdd(counter, s) = counterAdd(counter, t)
             /\ get(counter, s) = get(counter, t)
    /\ \A k \in DOMAIN counter.tokenCounts : k = ToLower(k)
    /\ counter.limit = 0
       => \A s \in CounterKeys :
             get(counter, s) =
                 BagSize([t \in {u \in DOMAIN calls : ToLower(u) = ToLower(s)} |-> calls[t]])

\* "a" and "A" have both been added and are counted together
C9_Witness ==
    /\ {<<"a">>, <<"A">>} \subseteq DOMAIN calls
    /\ get(counter, <<"A">>) = calls[<<"a">>] + calls[<<"A">>]
    /\ get(counter, <<"A">>) >= 2
    /\ <<"A">> \notin DOMAIN counter.tokenCounts

DistinctTokens(k, n) == {ToLower(tok.token) : tok \in TokensReaching(k, n)}

\* SimplifyPath has just emitted the label Value at every token of its path
\* whose node is displayed as Important with a limit L > 0 and has been
\* reached by L or more distinct tokens; with unpromotedOnly, only the nodes
\* that were never promoted are considered
EmitsValueAtLimit(unpromotedOnly) ==
    last.op = "SimplifyPath" =>
        LET tokens == labelPathTokens(last.path, classifiers)
            out == Segments(last.result)
        IN \A i \in 1..Len(tokens) :
              LET n == EdgeKeys(tokens, i)
              IN (/\ n \in DOMAIN trees[last.key]
                  /\ unpromotedOnly => NeverPromoted(last.key, n)
                  /\ trees[last.key][n].specificLabel.Important
                  /\ trees[last.key][n].specificLabel.CardinalityLimit > 0
                  /\ Cardinality(DistinctTokens(last.key, n))
                        >= trees[last.key][n].specificLabel.CardinalityLimit)
                 => /\ Len(out) = Len(tokens)
                    /\ out[i] = trees[last.key][n].specificLabel.Value

C11_TokenizerTerminates ==
    [][pc = "loop"
       => /\ pc' = "done" \/ Len(remaining') < Len(remaining)
          /\ Len(cleaned') <= Len(last'.path)
      ]_vars

(***************************************************************************)
(* C12: child edges are keyed by the value of LabelFields.  Add creates    *)
(* nodes only at the positions its sequence of edge keys names that the    *)
(* tree does not have yet, so an Add whose sequence of edge keys already   *)
(* exists in the tree creates no node and no edge, whatever tokens and     *)
(* specific labels it carries, and it touches no other tree.               *)
(***************************************************************************)
C12_NoDuplicateEdges ==
    [][last'.op = "Add"
       => LET tokens == labelPathTokens(last'.path, classifiers)
              k == last'.key
              before == IF k \in DOMAIN trees THEN DOMAIN trees[k] ELSE {Root}
              positions == {EdgeKeys(tokens, i) : i \in 0..Len(tokens)}
          IN /\ DOMAIN trees'[k] = before \cup positions
             /\ positions \subseteq before => DOMAIN trees'[k] = before
             /\ \A j \in DOMAIN trees \ {k} : trees'[j] = trees[j]
      ]_vars

\* one path was added twice and a path with another specific label and the
\* same edge key once, and the tree has the root and one child
C12_Witness ==
    /\ last.op = "Add"
    /\ last.key \in DOMAIN added
    /\ \E p \in DOMAIN added[last.key] : added[last.key][p] >= 2
    /\ Len(labelPathTokens(last.path, classifiers)) = 1
    /\ Cardinality(LabelsReaching(last.key,
           EdgeKeys(labelPathTokens(last.path, classifiers), 1))) >= 2
    /\ Cardinality(DOMAIN trees[last.key]) = 2

\* the positions of the failing options of a list
FailingAt(options) == {i \in 1..Len(options) : options[i].kind = "error"}

\* the positions of the WithClassifiers options of a list
ClassifiersAt(options) ==
    {i \in 1..Len(options) : options[i].kind = "WithClassifiers"}

\* the least and the greatest element of a non-empty set of numbers
Least(set) == CHOOSE i \in set : \A j \in set : i <= j

Greatest(set) == CHOOSE i \in set : \A j \in set : i >= j

(***************************************************************************)
(* C13: New calls its options in order.  If one fails, New returns the     *)
(* error of the first failing option with the zero-value Grouper and calls *)
(* no option after it.  Otherwise it returns no error and a Grouper with   *)
(* zero trees whose classifiers are those of the last WithClassifiers      *)
(* option, or the default chain when there is none.                        *)
(***************************************************************************)
C13_New ==
    LET options == constructed.options
    IN IF FailingAt(options) # {}
       THEN /\ constructed.err = options[Least(FailingAt(options))].err
            /\ constructed.applied = Least(FailingAt(options))
            /\ classifiers = << >>
            /\ trees = << >>
       ELSE /\ constructed.err = "nil"
            /\ constructed.applied = Len(options)
            /\ last = NoCall => trees = << >>
            /\ classifiers =
                  IF ClassifiersAt(options) = {} THEN DefaultClassifiers
                  ELSE options[Greatest(ClassifiersAt(options))].classifiers

\* New(WithClassifiers(..), failing, WithClassifiers(..)) has returned the
\* error and the zero-value Grouper after calling two options
C13_Witness ==
    /\ Len(constructed.options) = 3
    /\ FailingAt(constructed.options) = {2}
    /\ constructed.err = "test"
    /\ constructed.applied = 2
    /\ classifiers = << >>
    /\ last = NoCall

(***************************************************************************)
(* C14: isSignificant(token) is true exactly when (population < limit or   *)
(* limit = 0) and (population/total < 0.01 or get(token)/total >           *)
(* population/total); for total > 0 that is (population < limit or         *)
(* limit = 0) and (100 * population < total or get(token) > population).   *)
(***************************************************************************)
C14_IsSignificant ==
    [][/\ counter'.total > 0
          => \A s \in SignificantKeys :
                isSignificant(counter', s)
                    <=> /\ (population(counter') < counter'.limit \/ counter'.limit = 0)
                        /\ \/ 100 * population(counter') < counter'.total
                           \/ get(counter', s) > population(counter')
       /\ (counter' = counter /\ last'.op = "isSignificant" /\ counter.total > 0)
          => (last'.result
                 <=> /\ (population(counter) < counter.limit \/ counter.limit = 0)
                     /\ \/ 100 * population(counter) < counter.total
                        \/ get(counter, last'.path) > population(counter))
      ]_vars

\* a token the counter has never seen is judged significant because the
\* total exceeds a hundred times the population
C14_Witness ==
    /\ last.op = "isSignificant"
    /\ last.result
    /\ get(counter, last.path) = 0
    /\ counter.limit > population(counter)
    /\ counter.total > 100 * population(counter)

FirstMissing(k, tokens) ==
    Least({i \in 1..(Len(tokens) + 1) :
              i = Len(tokens) + 1 \/ EdgeKeys(tokens, i) \notin DOMAIN trees[k]})

(***************************************************************************)
(* C16: SimplifyPath emits exactly one element per token.  The tokens      *)
(* before the first token whose edge key has no child in the current node  *)
(* are emitted as their nodes decide; that token and every later token are *)
(* emitted as their raw literals, whatever the tree holds for them.        *)
(***************************************************************************)
C16_MissingEdgeVerbatim ==
    last.op = "SimplifyPath" =>
        LET tokens == labelPathTokens(last.path, classifiers)
            out == last.replaced
            missing == FirstMissing(last.key, tokens)
        IN /\ Len(out) = Len(tokens)
           /\ \A i \in 1..Len(tokens) :
                out[i] = IF i >= missing THEN tokens[i].token
                         ELSE replacement(trees[last.key][EdgeKeys(tokens, i)],
                                          tokens[i])

\* after /a/1/b was added, /a/1999/b is simplified: "a" is decided by its
\* node, the year has no edge, and it and the segment after it stay raw
C16_Witness ==
    /\ last.op = "SimplifyPath"
    /\ last.path = <<"/","a","/","1","9","9","9","/","b">>
    /\ last.replaced = << <<"W","o","r","d","s">>, <<"1","9","9","9">>, <<"b">> >>
    /\ FirstMissing(last.key, labelPathTokens(last.path, classifiers)) = 2

\* the length of the first '/'-delimited segment of a string
SegmentLength(str) ==
    RunLength(str, {str[i] : i \in 1..Len(str)} \ {Slash})

(***************************************************************************)
(* C17 as claimed: when no classifier of the chain matches the remainder,  *)
(* the tokenizer emits one token labelled Unknown (not Important) that     *)
(* covers the current segment only, up to the next separator, and the      *)
(* segments after it are left to be tokenized.                             *)
(***************************************************************************)
C17_UnknownOneSegment ==
    [][(/\ pc = "loop"
        /\ remaining # << >>
        /\ Head(remaining) # Slash
        /\ \A i \in 1..Len(classifiers) :
              isZero(Check(classifiers[i], remaining).label))
       => /\ cleaned' = Append(cleaned,
                 pathToken(Take(remaining, SegmentLength(remaining)), UnknownLabel))
          /\ remaining' \in {Drop(remaining, SegmentLength(remaining)),
                             Drop(remaining, SegmentLength(remaining) + 1)}
      ]_vars

\* What a call of NestedPathTokenClassifier.Check has returned, against what
\* its parent and its children return: the zero Label and an empty match
\* when the parent does not match; otherwise the parent's match, with the
\* fields of the first child that matches the parent's match over the fields
\* the parent returned, or, when no child matches, the parent's label: as
\* the parent returned it, or with no Parent when withoutParent
NestedReturns(withoutParent) ==
    (last.op = "Check" /\ classifiers[last.key].kind = "nested") =>
        LET c == classifiers[last.key]
            p == Check(c.Parent, last.path)
            matching == {i \in 1..Len(c.Children) :
                            ~isZero(Check(c.Children[i], p.match).label)}
        IN IF isZero(p.label) THEN last.result = NoMatch
           ELSE /\ last.result.match = p.match
                /\ last.result.label =
                      IF matching # {}
                      THEN [LabelFields |->
                                Check(c.Children[Least(matching)], p.match)
                                    .label.LabelFields,
                            parent |-> p.label.LabelFields]
                      ELSE IF withoutParent THEN Label(p.label.LabelFields)
                      ELSE p.label

(***************************************************************************)
(* C18 as claimed: NestedPathTokenClassifier.Check returns the zero Label  *)
(* and an empty match when the parent does not match; otherwise it returns *)
(* the parent's match, with the first child (in list order) that matches   *)
(* the parent's match as Fields over the parent's fields as Parent, or,    *)
(* when no child matches, the parent's own Label with no Parent.           *)
(***************************************************************************)
C18_Original == NestedReturns(TRUE)

(***************************************************************************)
(* C18 as amended: the same, except that when no child matches the Label   *)
(* the parent's Check returned is returned unchanged; it has no Parent     *)
(* unless the parent is itself a nested classifier one of whose children   *)
(* matched.                                                                *)
(***************************************************************************)
C18_NestedCheck ==
    /\ NestedReturns(FALSE)
    /\ (/\ last.op = "Check"
        /\ classifiers[last.key].kind = "nested"
        /\ classifiers[last.key].Parent.kind # "nested"
        /\ \A i \in 1..Len(classifiers[last.key].Children) :
              isZero(Check(classifiers[last.key].Children[i],
                           last.result.match).label))
       => last.result.label.parent = ZeroLabelFields

\* "2013/11/20" given to the nested classifier whose first child is the date
\* classifier: the parent matches "2013/", the date child does not match
\* that, and the Number child does
C18_Witness ==
    /\ last.op = "Check"
    /\ last.key = 3
    /\ last.path = <<"2","0","1","3","/","1","1","/","2","0">>
    /\ last.result.match = <<"2","0","1","3","/">>
    /\ last.result.label = [LabelFields |-> NumberClassifier.Label.LabelFields,
                            parent |-> AlphaNumericClassifier.Label.LabelFields]

(***************************************************************************)
(* C19: every node below a root has a counter with total >= 1, equal to    *)
(* the sum of its counts, and every counter on which SimplifyPath or Print *)
(* has called isSignificant has total >= 1, so that neither quotient of    *)
(* isSignificant has a zero divisor.                                       *)
(***************************************************************************)
C19_TotalPositive ==
    /\ \A kn \in ChildNodes :
          LET c == trees[kn[1]][kn[2]].tokenCounts
          IN /\ c.total >= 1
             /\ c.total = BagSize(c.tokenCounts)
    /\ \A c \in last.evaluated :
          /\ c.total >= 1
          /\ ~isNaN(float64Div(population(c), c.total))

\* Print has called isSignificant on the counters of several nodes, and the
\* Grouper holds an empty tree that SimplifyPath created
C19_Witness ==
    /\ last.op = "Print"
    /\ Cardinality(last.evaluated) >= 2
    /\ Cardinality(ChildNodes) >= 3
    /\ \E k \in DOMAIN trees : DOMAIN trees[k] = {Root}

\* str starts with a segment of exactly four digits
FourDigitSegment(str) ==
    /\ Len(str) >= 4
    /\ \A i \in 1..4 : str[i] \in DigitChars
    /\ Len(str) = 4 \/ str[5] = Slash

\* the number its first four digits write
FourDigitValue(str) ==
    1000 * DigitValue[str[1]] + 100 * DigitValue[str[2]]
        + 10 * DigitValue[str[3]] + DigitValue[str[4]]

\* the last call was Check of a year classifier
YearCall ==
    /\ last.op = "Check"
    /\ classifiers[last.key].kind = "year"

\* the call returned the label YYYY (not Important) with the four digits
\* and the separator after them exactly when the string starts with a
\* segment of four digits whose value is within [Start, End], and the zero
\* Label with an empty match otherwise
YearReturns ==
    YearCall =>
        LET c == classifiers[last.key]
        IN IF /\ FourDigitSegment(last.path)
              /\ c.Start <= FourDigitValue(last.path)
              /\ FourDigitValue(last.path) <= c.End
           THEN /\ last.result.label = Label(LabelFields(FALSE, 0, <<"Y","Y","Y","Y">>))
                /\ last.result.match = Take(last.path, IF Len(last.path) = 4 THEN 4 ELSE 5)
                /\ TrimRight(last.result.match) = Take(last.path, 4)
           ELSE last.result = NoMatch

\* the string starts with four digits that the year classifier of the
\* default chain has just declined
DeclinedByDefaultYear ==
    /\ YearCall
    /\ classifiers[last.key] = DefaultClassifiers[2]
    /\ FourDigitSegment(last.path)
    /\ last.result = NoMatch

(***************************************************************************)
(* C20 as claimed: YearPathTokenClassifier.Check returns YYYY with the     *)
(* matched segment exactly when the remainder starts with a segment of     *)
(* exactly four digits whose value v has Start <= v <= End, and the zero   *)
(* Label with an empty match for a four-digit segment outside the range,   *)
(* which the default chain then labels Number.                             *)
(***************************************************************************)
C20_Original ==
    /\ YearReturns
    /\ DeclinedByDefaultYear
       => labelPathToken(last.path, DefaultClassifiers).label
              = [LabelFields |-> NumberClassifier.Label.LabelFields,
                 parent |-> AlphaNumericClassifier.Label.LabelFields]

(***************************************************************************)
(* C20 as amended: the same for Check; the default chain labels a          *)
(* four-digit segment outside the range Number unless it starts a          *)
(* YYYY/MM/DD run, which the date classifier, first in the chain, labels   *)
(* YYYY/MM/DD.                                                             *)
(***************************************************************************)
C20_YearInRange ==
    /\ YearReturns
    /\ DeclinedByDefaultYear
       => labelPathToken(last.path, DefaultClassifiers).label
              = IF regexYYYYMMDD(last.path) # << >>
                THEN YYYYMMDDClassifier.Label
                ELSE [LabelFields |-> NumberClassifier.Label.LabelFields,
                      parent |-> AlphaNumericClassifier.Label.LabelFields]

\* the year classifier of the default chain has declined "2027", one past
\* the last year of its range
C20_Witness ==
    /\ DeclinedByDefaultYear
    /\ FourDigitValue(last.path) = yyyyEnd + 1
    /\ labelPathToken(last.path, DefaultClassifiers).label.LabelFields
           = NumberClassifier.Label.LabelFields

(***************************************************************************)
(* C21: topN(n) returns min(n, population()) distinct keys of the counter, *)
(* the overflow key among them like any other key, in non-increasing order *)
(* of their counts, none of them counted less often than a key it leaves   *)
(* out, and it leaves the counter unchanged.                               *)
(***************************************************************************)
C21_TopN ==
    [][last'.op = "topN"
       => LET top == last'.result
              n == last'.key
              counts == counter.tokenCounts
          IN /\ counter' = counter
             /\ Len(top) = IF population(counter) < n THEN population(counter) ELSE n
             /\ \A i \in 1..Len(top) : top[i] \in DOMAIN counts
             /\ \A i, j \in 1..Len(top) : i # j => top[i] # top[j]
             /\ \A i, j \in 1..Len(top) : i < j => counts[top[i]] >= counts[top[j]]
             /\ \A i \in 1..Len(top) :
                   \A k \in DOMAIN counts \ {top[j] : j \in 1..Len(top)} :
                       counts[top[i]] >= counts[k]
             /\ (n >= population(counter) /\ CardinalityKey \in DOMAIN counts)
                   => \E i \in 1..Len(top) : top[i] = CardinalityKey
      ]_vars

\* topN(2) of a counter of three keys, the overflow key among them, has
\* returned the key counted most often and then one counted less often
C21_Witness ==
    /\ last.op = "topN"
    /\ last.key = 2
    /\ population(counter) = 3
    /\ CardinalityKey \in DOMAIN counter.tokenCounts
    /\ Len(last.result) = 2
    /\ counter.tokenCounts[last.result[1]] > counter.tokenCounts[last.result[2]]
    /\ \E k \in DOMAIN counter.tokenCounts :
          counter.tokenCounts[k] < counter.tokenCounts[last.result[1]]
          /\ k \notin {last.result[1], last.result[2]}

(***************************************************************************)
(* C23: SimplifyPath is read-only: it leaves the set of segment-count keys *)
(* that have a tree and every tree (nodes, edges, displayed labels,        *)
(* counter limits, key counts and totals) unchanged.                       *)
(***************************************************************************)
C23_SimplifyPathReadOnly ==
    [][last'.op = "SimplifyPath" => trees' = trees]_vars

\* the number of add calls so far whose argument, lower-cased, equals t
\* lower-cased
AddCallsOf(t) ==
    BagSize([s \in {u \in DOMAIN calls : ToLower(u) = ToLower(t)} |-> calls[s]])

(***************************************************************************)
(* C25: for every token t, get(t) is at most the number of add calls whose *)
(* argument equals t after lower-casing: the count reported for a literal  *)
(* token, "cardinality" included, never includes occurrences of other      *)
(* tokens.                                                                 *)
(***************************************************************************)
C25_GetCountsOwnAdds ==
    \A t \in CounterKeys : get(counter, t) <= AddCallsOf(t)

\* counter new holds every key of counter old, none counted less, and its
\* total is not smaller
CounterGrown(old, new) ==
    /\ new.total >= old.total
    /\ DOMAIN old.tokenCounts \subseteq DOMAIN new.tokenCounts
    /\ \A key \in DOMAIN old.tokenCounts :
          new.tokenCounts[key] >= old.tokenCounts[key]

\* the node at position n displays its edge key (the parent label)
DisplaysEdgeKey(t, n) == t[n].specificLabel = n[Len(n)]

(***************************************************************************)
(* C24: the structure only grows: every step keeps every tree, every node  *)
(* and every edge (a node's position is the sequence of edge keys leading  *)
(* to it), no counter's total or per-key count decreases, and a node that  *)
(* displays its edge key (the parent label) keeps displaying it.           *)
(***************************************************************************)
C24_OnlyGrows ==
    [][/\ DOMAIN trees \subseteq DOMAIN trees'
       /\ \A k \in DOMAIN trees :
             /\ DOMAIN trees[k] \subseteq DOMAIN trees'[k]
             /\ \A n \in DOMAIN trees[k] :
                   /\ CounterGrown(trees[k][n].tokenCounts, trees'[k][n].tokenCounts)
                   /\ (n # Root /\ DisplaysEdgeKey(trees[k], n))
                         => DisplaysEdgeKey(trees'[k], n)
      ]_vars

\* the path added last had been added before and reaches, with a specific
\* label other than the edge key, a node that tokens of two different
\* specific labels have reached: the node was promoted by an earlier Add and
\* still displays its edge key
C24_Witness ==
    /\ last.op = "Add"
    /\ added[last.key][last.path] >= 2
    /\ \E kn \in ChildNodes :
          LET n == kn[2]
              tokens == labelPathTokens(last.path, classifiers)
          IN /\ kn[1] = last.key
             /\ ~NeverPromoted(kn[1], n)
             /\ DisplaysEdgeKey(trees[kn[1]], n)
             /\ Len(tokens) >= Len(n)
             /\ EdgeKeys(tokens, Len(n)) = n
             /\ tokens[Len(n)].label.LabelFields # n[Len(n)]
             /\ trees[kn[1]][n].tokenCounts.total >= 3

(***************************************************************************)
(* C22: the result of SimplifyPath does not depend on the order of         *)
(* training: a fresh Grouper with the same classifiers, trained with the   *)
(* same Add calls in any other order, returns the same string for every    *)
(* path.                                                                   *)
(***************************************************************************)
C22_OrderIndependent ==
    \A order \in Orderings :
        \A path \in ShufflePaths :
            SimplifyResult(TrainedIn(order), classifiers, path)
                = SimplifyResult(trees, classifiers, path)

====
